---- MODULE Spec2Model ----
(***************************************************************************)
(* A model of the DashboardPanel layout widget (src/unnamed/part_000):     *)
(* the property store with its coercions, the message handlers, and the    *)
(* two-mode layout computation (_layoutData and _layoutChildren).          *)
(*                                                                         *)
(* Numbers.  A JavaScript number is modelled as an exact rational <<n, d>> *)
(* with d > 0 in lowest terms; <<1, 0>> is Infinity.  Rounding of doubles  *)
(* is not modelled.  A value written to a property is a "wide" number      *)
(* [k, r], standing for k * 2^31 + r, so that values at and beyond the     *)
(* signed 32-bit range can be written although the checker's own integers  *)
(* are 32 bits wide.                                                       *)
(***************************************************************************)
EXTENDS Integers, Sequences, FiniteSets, TLC

VARIABLES
    cfg,          \* the panel's property values (PanelConfig)
    items,        \* the children in container order: placement and size limits
    box,          \* the panel's boxSizing (border and padding), from the style sheet
    offsetWidth,  \* the width of the panel's measured offsetRect
    isAttached,   \* Widget.isAttached
    isVisible,    \* Widget.isVisible
    queue,        \* messages posted to the panel and not yet processed
    geom,         \* per child: the offset geometry last set on it
    sizer,        \* the height last written to the sizer node
    sizeLimits,   \* the panel's own size limits, as last set by _setupGeometry
    pass,         \* the last run of _layoutChildren: its argument and its calls
    lastWrite,    \* the last property write: field, value written, value read back
    writes,       \* the number of property writes so far
    parent,       \* whether the panel has a parent widget
    cycle         \* the message loop's cycle over the pending messages: the
                  \* handlers it has run and what they did, in order

vars == <<cfg, items, box, offsetWidth, isAttached, isVisible, queue, geom,
          sizer, sizeLimits, pass, lastWrite, writes, parent, cycle>>

(***************************************************************************)
(* Bounds of the model.                                                    *)
(***************************************************************************)
MaxChildren == 3

MaxWrites == 2

(***************************************************************************)
(* Numbers                                                                 *)
(***************************************************************************)
Abs(i) ==
    IF i < 0 THEN -i ELSE i

RECURSIVE GCD(_, _)
GCD(a, b) ==
    IF b = 0 THEN a ELSE GCD(b, a % b)

\* n / d in lowest terms, for d > 0
Norm(n, d) ==
    IF d = 1 THEN <<n, 1>>
    ELSE LET g == GCD(Abs(n), d) IN <<n \div g, d \div g>>

Num(i) ==
    <<i, 1>>

Infinity ==
    <<1, 0>>

IsFinite(a) ==
    a[2] # 0

Lt(a, b) ==
    a[1] * b[2] < b[1] * a[2]

Le(a, b) ==
    ~Lt(b, a)

MathMax(a, b) ==
    IF Lt(a, b) THEN b ELSE a

MathMin(a, b) ==
    IF Lt(b, a) THEN b ELSE a

Add(a, b) ==
    IF ~IsFinite(a) THEN a
    ELSE IF ~IsFinite(b) THEN b
    ELSE Norm(a[1] * b[2] + b[1] * a[2], a[2] * b[2])

Neg(a) ==
    <<-a[1], a[2]>>

Sub(a, b) ==
    Add(a, Neg(b))

Mul(a, b) ==
    Norm(a[1] * b[1], a[2] * b[2])

\* a / b for a finite a and a positive finite b
Div(a, b) ==
    Norm(a[1] * b[2], a[2] * b[1])

(***************************************************************************)
(* The layout data for an inner layout width.                              *)
(***************************************************************************)
_layoutData_le(c, innerWidth) ==
    LET colCount == c.columnCount
        fixedColSpace == Mul(c.columnSpacing, Sub(colCount, Num(1)))
        idealColSize == Div(Sub(innerWidth, fixedColSpace), colCount)
        minColSize == c.minColumnSize
        maxColSize == c.maxColumnSize
    IN  IF Le(idealColSize, minColSize)
        THEN [singleCol |-> TRUE,
              colSize |-> MathMax(minColSize, MathMin(innerWidth, maxColSize)),
              rowSize |-> c.minRowSize]
        ELSE LET colSize == MathMax(minColSize, MathMin(idealColSize, maxColSize))
                 idealRowSize == Mul(colSize, c.aspectRatio)
             IN  [singleCol |-> FALSE,
                  colSize |-> colSize,
                  rowSize |-> MathMax(c.minRowSize, MathMin(idealRowSize, c.maxRowSize))]

_layoutData_maxWins(c, innerWidth) ==
    LET colCount == c.columnCount
        fixedColSpace == Mul(c.columnSpacing, Sub(colCount, Num(1)))
        idealColSize == Div(Sub(innerWidth, fixedColSpace), colCount)
        minColSize == c.minColumnSize
        maxColSize == c.maxColumnSize
    IN  IF Lt(idealColSize, minColSize)
        THEN [singleCol |-> TRUE,
              colSize |-> MathMin(MathMax(minColSize, innerWidth), maxColSize),
              rowSize |-> c.minRowSize]
        ELSE LET colSize == MathMin(MathMax(minColSize, idealColSize), maxColSize)
                 idealRowSize == Mul(colSize, c.aspectRatio)
             IN  [singleCol |-> FALSE,
                  colSize |-> colSize,
                  rowSize |-> MathMin(MathMax(c.minRowSize, idealRowSize), c.maxRowSize)]

_layoutData_noFloor(c, innerWidth) ==
    LET colCount == c.columnCount
        fixedColSpace == Mul(c.columnSpacing, Sub(colCount, Num(1)))
        idealColSize == Div(Sub(innerWidth, fixedColSpace), colCount)
        minColSize == c.minColumnSize
        maxColSize == c.maxColumnSize
    IN  IF Lt(idealColSize, minColSize)
        THEN [singleCol |-> TRUE,
              colSize |-> MathMin(innerWidth, maxColSize),
              rowSize |-> c.minRowSize]
        ELSE LET colSize == MathMax(minColSize, MathMin(idealColSize, maxColSize))
                 idealRowSize == Mul(colSize, c.aspectRatio)
             IN  [singleCol |-> FALSE,
                  colSize |-> colSize,
                  rowSize |-> MathMax(c.minRowSize, MathMin(idealRowSize, c.maxRowSize))]

_layoutData(c, innerWidth) ==
    LET colCount == c.columnCount
        fixedColSpace == Mul(c.columnSpacing, Sub(colCount, Num(1)))
        idealColSize == Div(Sub(innerWidth, fixedColSpace), colCount)
        minColSize == c.minColumnSize
        maxColSize == c.maxColumnSize
    IN  IF Lt(idealColSize, minColSize)
        THEN [singleCol |-> TRUE,
              colSize |-> MathMax(minColSize, MathMin(innerWidth, maxColSize)),
              rowSize |-> c.minRowSize]
        ELSE LET colSize == MathMax(minColSize, MathMin(idealColSize, maxColSize))
                 idealRowSize == Mul(colSize, c.aspectRatio)
             IN  [singleCol |-> FALSE,
                  colSize |-> colSize,
                  rowSize |-> MathMax(c.minRowSize, MathMin(idealRowSize, c.maxRowSize))]

(***************************************************************************)
(* The order of the children in single-column mode.                        *)
(***************************************************************************)
widgetCmp_columnFirst(a, b) ==
    IF a.column # b.column THEN Sub(a.column, b.column) ELSE Sub(a.row, b.row)

widgetCmp(a, b) ==
    LET r1 == a.row
        r2 == b.row
    IN  IF r1 # r2 THEN Sub(r1, r2)
        ELSE Sub(a.column, b.column)

\* this.children.sort(widgetCmp): the sort works on a copy of the child list
\* and may leave children that compare equal in any order.  The outcomes are
\* the orders of the children in which no child is followed by a smaller one:
\* each is built by taking, again and again, a least child of those left.
RECURSIVE sortFrom(_, _, _)
sortFrom(ch, rest, acc) ==
    IF rest = {} THEN {acc}
    ELSE UNION { sortFrom(ch, rest \ {m}, Append(acc, m)) :
                   m \in {m \in rest :
                            \A o \in rest : Le(widgetCmp(ch[m], ch[o]), Num(0))} }

sort(ch) ==
    sortFrom(ch, 1..Len(ch), <<>>)

(***************************************************************************)
(* Layout the children using the given offset width.                       *)
(***************************************************************************)
childCount_offByOne(ch) ==
    Len(ch) - 1

childCount(ch) ==
    Len(ch)

\* Math.max(limits.min, Math.min(size, limits.max)), for the width and the height
clampToLimits_noMax(limits, w, h) ==
    [w |-> MathMax(limits.minWidth, w),
     h |-> MathMax(limits.minHeight, h)]

clampToLimits(limits, w, h) ==
    [w |-> MathMax(limits.minWidth, MathMin(w, limits.maxWidth)),
     h |-> MathMax(limits.minHeight, MathMin(h, limits.maxHeight))]

singleColSize(e, widget) ==
    LET span == widget.rowSpan
    IN  Add(Mul(span, e.rowSize), Mul(Sub(span, Num(1)), e.rowSpacing))

\* One setOffsetGeometry call of the single-column loop: the child, the size
\* given by the column and the rows, and the rectangle set on the child.
singleColCall(e, i, y) ==
    LET widget == e.items[i]
        size == singleColSize(e, widget)
        clamped == clampToLimits(widget.sizeLimits, e.colSize, size)
    IN  [widget |-> i,
         grid |-> [w |-> e.colSize, h |-> size],
         rect |-> [x |-> e.left, y |-> y, w |-> clamped.w, h |-> clamped.h]]

singleColAdvance_noSpacing(e, widget, y) ==
    Add(y, singleColSize(e, widget))

singleColAdvance(e, widget, y) ==
    Add(y, Add(singleColSize(e, widget), e.rowSpacing))

RECURSIVE singleColLoop(_, _, _, _, _)
singleColLoop(e, children, i, y, calls) ==
    IF i > Len(children) THEN [calls |-> calls, sizer |-> <<y>>]
    ELSE singleColLoop(e, children, i + 1,
                       singleColAdvance(e, e.items[children[i]], y),
                       Append(calls, singleColCall(e, children[i], y)))

gridMaxRow_rowOnly(maxRow, widget) ==
    MathMax(maxRow, widget.row)

gridMaxRow(maxRow, widget) ==
    MathMax(maxRow, Sub(Add(widget.row, widget.rowSpan), Num(1)))

gridCell_clampedSpacing(e, widget) ==
    LET row == widget.row
        rowSpan == widget.rowSpan
        col == widget.column
        colSpan == widget.columnSpan
        adjCol == MathMin(col, e.maxCol)
        adjColSpan == MathMin(colSpan, Add(Sub(e.maxCol, adjCol), Num(1)))
    IN  [adjCol |-> adjCol, adjColSpan |-> adjColSpan,
         x |-> Mul(adjCol, Add(e.colSize, e.colSpacing)),
         y |-> Mul(row, Add(e.rowSize, e.rowSpacing)),
         w |-> Add(Mul(adjColSpan, e.colSize), Mul(Sub(adjColSpan, Num(1)), e.colSpacing)),
         h |-> Add(Mul(rowSpan, e.rowSize), Mul(Sub(rowSpan, Num(1)), e.rowSpacing))]

\* The cell rectangle of a child in grid mode, before its size limits apply.
gridCell(e, widget) ==
    LET row == widget.row
        rowSpan == widget.rowSpan
        col == widget.column
        colSpan == widget.columnSpan
        adjCol == MathMin(col, e.maxCol)
        adjColSpan == MathMin(colSpan, Add(Sub(e.maxCol, adjCol), Num(1)))
    IN  [adjCol |-> adjCol, adjColSpan |-> adjColSpan,
         x |-> Mul(adjCol, Add(e.colSize, e.colSpacing)),
         y |-> Mul(row, Add(e.rowSize, e.rowSpacing)),
         w |-> Add(Mul(adjColSpan, e.colSize), Mul(Sub(colSpan, Num(1)), e.colSpacing)),
         h |-> Add(Mul(rowSpan, e.rowSize), Mul(Sub(rowSpan, Num(1)), e.rowSpacing))]

\* One setOffsetGeometry call of the grid loop.
gridCall(e, i) ==
    LET widget == e.items[i]
        cell == gridCell(e, widget)
        clamped == clampToLimits(widget.sizeLimits, cell.w, cell.h)
    IN  [widget |-> i,
         grid |-> [w |-> cell.w, h |-> cell.h],
         rect |-> [x |-> Add(e.left, cell.x), y |-> Add(e.top, cell.y),
                   w |-> clamped.w, h |-> clamped.h]]

RECURSIVE gridLoop(_, _, _, _)
gridLoop(e, i, maxRow, calls) ==
    IF i > childCount(e.items)
    THEN [calls |-> calls,
          sizer |-> <<Add(Add(Mul(Add(maxRow, Num(1)), e.rowSize),
                              Mul(maxRow, e.rowSpacing)),
                          e.verticalSum)>>]
    ELSE gridLoop(e, i + 1, gridMaxRow(maxRow, e.items[i]),
                  Append(calls, gridCall(e, i)))

NoData ==
    [singleCol |-> FALSE, colSize |-> Num(0), rowSize |-> Num(0)]

\* The possible outcomes of one run: whether the children were laid out, the
\* layout data used, the setOffsetGeometry calls in order, and the heights
\* written to the sizer.
_layoutChildren(c, ch, bx, ow) ==
    IF childCount(ch) = 0
    THEN {[laid |-> FALSE, data |-> NoData, calls |-> <<>>, sizer |-> <<>>]}
    ELSE
    LET top == bx.paddingTop
        left == bx.paddingLeft
        width == Sub(ow, bx.horizontalSum)
        ld == _layoutData(c, width)
        e == [items |-> ch, top |-> top, left |-> left,
              colSize |-> ld.colSize, rowSize |-> ld.rowSize,
              rowSpacing |-> c.rowSpacing, colSpacing |-> c.columnSpacing,
              maxCol |-> Sub(c.columnCount, Num(1)),
              verticalSum |-> bx.verticalSum]
        done(out) == [laid |-> TRUE, data |-> ld,
                      calls |-> out.calls, sizer |-> out.sizer]
    IN  IF ld.singleCol
        THEN {done(singleColLoop(e, children, 1, top, <<>>)) : children \in sort(ch)}
        ELSE {done(gridLoop(e, 1, Num(0), <<>>))}

(***************************************************************************)
(* Property values and their coercion.                                     *)
(***************************************************************************)
Int32Max == 2147483647

Wide(k, r) ==
    [k |-> k, r |-> r]

\* The integer part of a finite rational, truncated toward zero.
Trunc(a) ==
    IF a[1] >= 0 THEN a[1] \div a[2] ELSE -((-a[1]) \div a[2])

\* value | 0: ToInt32 of the wide number k * 2^31 + r.
ToInt32(value) ==
    IF ~IsFinite(value.r) THEN 0
    ELSE LET m == Trunc(value.r)
         IN  IF value.k % 2 = 0 THEN m
             ELSE IF value.k > 0 THEN (m - Int32Max) - 1
             ELSE IF m = 0 THEN -Int32Max - 1
             ELSE (m + Int32Max) + 1

FloatFields ==
    {"aspectRatio", "minRowSize", "minColumnSize", "maxRowSize", "maxColumnSize"}

IntFields ==
    {"columnCount", "rowSpacing", "columnSpacing"}

ItemFields ==
    {"row", "column", "rowSpan", "columnSpan"}

\* The lower bound of each property's coerce function.
LowerBound(field) ==
    IF field \in {"columnCount", "rowSpan", "columnSpan"} THEN 1 ELSE 0

\* coerce of the float-valued properties: Math.max(0, value)
coerceFloat(field, value) ==
    MathMax(Num(LowerBound(field)), value)

\* coerce of the integer-valued properties: Math.max(bound, value | 0)
coerceInt(field, value) ==
    MathMax(Num(LowerBound(field)), Num(ToInt32(value)))

\* The fields whose changed handler posts a layout request; the others
\* call owner.update().
LayoutFields ==
    {"columnCount", "minColumnSize", "maxColumnSize", "columnSpacing"}

(***************************************************************************)
(* Messages.                                                               *)
(***************************************************************************)
InQueue(q, type) ==
    \E i \in 1..Len(q) : q[i] = type

\* postMessage: update and layout requests are compressed against the
\* pending messages of the same type.
postMessage(q, type) ==
    IF InQueue(q, type) THEN q ELSE Append(q, type)

changed(q, field) ==
    IF field \in LayoutFields THEN postMessage(q, "layout-request")
    ELSE postMessage(q, "update-request")

(***************************************************************************)
(* Geometry of the children and of the panel.                              *)
(***************************************************************************)
NoRect ==
    [set |-> FALSE, x |-> Num(0), y |-> Num(0), w |-> Num(0), h |-> Num(0)]

setOffsetGeometry(r) ==
    [set |-> TRUE, x |-> r.x, y |-> r.y, w |-> r.w, h |-> r.h]

RECURSIVE ApplyCalls(_, _, _)
ApplyCalls(g, calls, i) ==
    IF i > Len(calls) THEN g
    ELSE ApplyCalls([g EXCEPT ![calls[i].widget] = setOffsetGeometry(calls[i].rect)],
                    calls, i + 1)

NoPass ==
    [ran |-> FALSE, offsetWidth |-> Num(0), laid |-> FALSE, data |-> NoData,
     calls |-> <<>>, sizer |-> <<>>]

\* A run of _layoutChildren(ow, _) on the current state.
LayoutPass(ow) ==
    \E out \in _layoutChildren(cfg, items, box, ow) :
        /\ geom' = ApplyCalls(geom, out.calls, 1)
        /\ sizer' = IF out.sizer = <<>> THEN sizer
                    ELSE [set |-> TRUE, height |-> out.sizer[Len(out.sizer)]]
        /\ pass' = [ran |-> TRUE, offsetWidth |-> ow, laid |-> out.laid,
                    data |-> out.data, calls |-> out.calls, sizer |-> out.sizer]

\* onUpdateRequest, with the rest of the state left to the caller
UpdateRequest ==
    IF isVisible THEN LayoutPass(offsetWidth)
    ELSE UNCHANGED <<geom, sizer, pass>>

_setupGeometry_noBox(c, bx) ==
    [minWidth |-> c.minColumnSize,
     minHeight |-> c.minRowSize,
     maxWidth |-> Infinity,
     maxHeight |-> Infinity]

_setupGeometry(c, bx) ==
    [minWidth |-> Add(c.minColumnSize, bx.horizontalSum),
     minHeight |-> Add(c.minRowSize, bx.verticalSum),
     maxWidth |-> Add(Infinity, bx.horizontalSum),
     maxHeight |-> Add(Infinity, bx.verticalSum)]

\* onLayoutRequest: _setupGeometry ends with update(true), which sends the
\* update request at once.
LayoutRequest ==
    IF isAttached
    THEN /\ sizeLimits' = _setupGeometry(cfg, box)
         /\ UpdateRequest
    ELSE UNCHANGED <<sizeLimits, geom, sizer, pass>>

(***************************************************************************)
(* The message loop.  The messages posted to the panel wait in the queue   *)
(* until the loop's next cycle, which dispatches all of them before any    *)
(* other code runs.  No handler of the panel posts a message to the panel. *)
(* The cycle's log lists the handlers run and what they did; live tells    *)
(* whether the panel has been attached and visible ever since the first    *)
(* of the pending messages was posted.                                     *)
(***************************************************************************)
NoCycle ==
    [log |-> <<>>, live |-> FALSE]

\* The loop is not in the middle of a cycle.
Idle ==
    queue = <<>> \/ cycle.log = <<>>

\* The cycle after an operation that leaves q as the queue: the first
\* message posted to an empty queue opens the next cycle.
posted(q) ==
    IF queue = <<>> /\ q # <<>>
    THEN [log |-> <<>>, live |-> isAttached /\ isVisible]
    ELSE cycle

\* What onUpdateRequest does.
UpdateLog ==
    <<"onUpdateRequest">> \o (IF isVisible THEN <<"_layoutChildren">> ELSE <<>>)

\* What onLayoutRequest does.
LayoutLog ==
    <<"onLayoutRequest">> \o
    (IF isAttached
     THEN <<"setSizeLimits">> \o
          (IF parent THEN <<"parent.layout-request">> ELSE <<>>) \o UpdateLog
     ELSE <<>>)

(***************************************************************************)
(* The values the model draws its inputs from.                             *)
(***************************************************************************)
Config(ar, cc, minR, minC, maxR, maxC, rs, cs) ==
    [aspectRatio |-> ar, columnCount |-> Num(cc),
     minRowSize |-> minR, minColumnSize |-> minC,
     maxRowSize |-> maxR, maxColumnSize |-> maxC,
     rowSpacing |-> Num(rs), columnSpacing |-> Num(cs)]

\* The default values of the panel's properties.
DefaultConfig ==
    Config(Num(1), 12, Num(50), Num(50), Infinity, Infinity, 8, 8)

Configs ==
    { DefaultConfig,
      Config(Num(1), 12, Num(50), Num(0), Infinity, Infinity, 8, 8),
      Config(Num(1), 12, Num(50), Num(50), Infinity, Num(40), 8, 8),
      Config(<<1, 2>>, 12, Num(50), Num(50), Num(30), Infinity, 8, 8),
      Config(Num(2), 1, Num(0), Num(50), Num(80), Num(200), 8, 8),
      Config(Num(0), 12, Num(0), Num(0), Infinity, Num(0), 0, 0),
      Config(<<3, 2>>, 5, Num(10), Num(20), Infinity, Infinity, 4, 2) }

Limits(minW, minH, maxW, maxH) ==
    [minWidth |-> minW, minHeight |-> minH, maxWidth |-> maxW, maxHeight |-> maxH]

\* The default size limits of a widget.
DefaultLimits ==
    Limits(Num(0), Num(0), Infinity, Infinity)

Item(row, column, rowSpan, columnSpan, limits) ==
    [row |-> Num(row), column |-> Num(column),
     rowSpan |-> Num(rowSpan), columnSpan |-> Num(columnSpan),
     sizeLimits |-> limits]

\* The default placement of a widget.
DefaultItem ==
    Item(0, 0, 1, 1, DefaultLimits)

\* The pool of widgets the children are taken from; two of them share their
\* origin cell.
Widgets ==
    { Item(1, 0, 1, 1, Limits(Num(0), Num(0), Num(0), Infinity)),
      Item(0, 5, 1, 1, Limits(Num(0), Num(0), Num(40), Num(20))),
      Item(0, 1, 2, 1, Limits(Num(60), Num(120), Num(30), Infinity)),
      Item(2, 10, 3, 5, DefaultLimits),
      Item(0, 5, 2, 1, DefaultLimits) }

\* The child lists: at most MaxChildren widgets of the pool, each at most once.
ItemSeqs ==
    UNION {{s \in [1..n -> Widgets] : \A i, j \in 1..n : i # j => s[i] # s[j]} :
               n \in 0..MaxChildren}

BoxSizing(top, left, hsum, vsum) ==
    [paddingTop |-> Num(top), paddingLeft |-> Num(left),
     horizontalSum |-> Num(hsum), verticalSum |-> Num(vsum)]

Boxes ==
    {BoxSizing(0, 0, 0, 0), BoxSizing(3, 5, 12, 8)}

Widths ==
    {Num(0), Num(687), Num(688), Num(1288)}

\* A resize message: a size, or the unknown size (-1, -1).
ResizeMessages ==
    { [width |-> Num(-1), height |-> Num(-1)],
      [width |-> Num(688), height |-> Num(400)] }

(***************************************************************************)
(* The message handlers.                                                   *)
(***************************************************************************)
onUpdateRequest ==
    /\ queue # <<>>
    /\ Head(queue) = "update-request"
    /\ queue' = Tail(queue)
    /\ UpdateRequest
    /\ cycle' = [cycle EXCEPT !.log = @ \o UpdateLog]
    /\ UNCHANGED <<cfg, items, box, offsetWidth, isAttached, isVisible,
                   sizeLimits, lastWrite, writes, parent>>

onLayoutRequest ==
    /\ queue # <<>>
    /\ Head(queue) = "layout-request"
    /\ queue' = Tail(queue)
    /\ LayoutRequest
    /\ cycle' = [cycle EXCEPT !.log = @ \o LayoutLog]
    /\ UNCHANGED <<cfg, items, box, offsetWidth, isAttached, isVisible,
                   lastWrite, writes, parent>>

\* A resize message with a size follows the parent setting the panel's
\* offset geometry, which is what offsetRect then reports.
onResize(msg) ==
    /\ IF Lt(msg.width, Num(0)) \/ Lt(msg.height, Num(0))
       THEN /\ offsetWidth' = offsetWidth
            /\ IF isVisible THEN LayoutPass(offsetWidth)
               ELSE UNCHANGED <<geom, sizer, pass>>
       ELSE /\ offsetWidth' = msg.width
            /\ IF isVisible THEN LayoutPass(msg.width)
               ELSE UNCHANGED <<geom, sizer, pass>>
    /\ UNCHANGED <<cfg, items, box, isAttached, isVisible, queue,
                   sizeLimits, lastWrite, writes, parent, cycle>>

(***************************************************************************)
(* The layout of a configured panel: the panel is attached and visible,    *)
(* its children were added since the last pass, and it is then updated     *)
(* and resized.                                                            *)
(***************************************************************************)
NoWrite ==
    [field |-> "none", value |-> Wide(0, Num(0)), read |-> Num(0)]

NoSizer ==
    [set |-> FALSE, height |-> Num(0)]

InitLayout ==
    /\ cfg \in Configs
    /\ items \in ItemSeqs
    /\ box \in Boxes
    /\ offsetWidth \in Widths
    /\ isAttached = TRUE
    /\ isVisible = TRUE
    /\ queue = <<"update-request">>
    /\ geom = [i \in 1..Len(items) |-> NoRect]
    /\ sizer = NoSizer
    /\ sizeLimits = _setupGeometry(cfg, box)
    /\ pass = NoPass
    /\ lastWrite = NoWrite
    /\ writes = 0
    /\ parent = FALSE
    /\ cycle = [log |-> <<>>, live |-> TRUE]

NextLayout ==
    \/ onUpdateRequest
    \/ \E msg \in ResizeMessages : onResize(msg)

SpecLayout ==
    InitLayout /\ [][NextLayout]_vars

(***************************************************************************)
(* Property writes.  Property.set coerces the value, stores it, and calls  *)
(* the changed handler when the stored value differs from the old one.     *)
(***************************************************************************)
\* The values written to the float-valued properties.
FloatValues ==
    {Num(-3), <<1, 2>>, Infinity}

\* The values written to the integer-valued properties: -1, 0.7, 2.9, 3,
\* 2^31, 2^32 + 3 and -2^31 - 1.
IntValues ==
    { Wide(0, Num(-1)), Wide(0, <<7, 10>>), Wide(0, <<29, 10>>), Wide(0, Num(3)),
      Wide(1, Num(0)), Wide(2, Num(3)), Wide(-1, Num(-1)) }

setFloatProperty(field, value) ==
    LET new == coerceFloat(field, value)
    IN  /\ Idle
        /\ writes < MaxWrites
        /\ writes' = writes + 1
        /\ cfg' = [cfg EXCEPT ![field] = new]
        /\ queue' = IF new # cfg[field] THEN changed(queue, field) ELSE queue
        /\ lastWrite' = [field |-> field, value |-> Wide(0, value), read |-> new]
        /\ cycle' = posted(queue')
        /\ UNCHANGED <<items, box, offsetWidth, isAttached, isVisible, geom,
                       sizer, sizeLimits, pass, parent>>

setIntProperty(field, value) ==
    LET new == coerceInt(field, value)
    IN  /\ Idle
        /\ writes < MaxWrites
        /\ writes' = writes + 1
        /\ cfg' = [cfg EXCEPT ![field] = new]
        /\ queue' = IF new # cfg[field] THEN changed(queue, field) ELSE queue
        /\ lastWrite' = [field |-> field, value |-> value, read |-> new]
        /\ cycle' = posted(queue')
        /\ UNCHANGED <<items, box, offsetWidth, isAttached, isVisible, geom,
                       sizer, sizeLimits, pass, parent>>

\* A placement property of child i: onWidgetChanged updates the parent panel.
setItemProperty(i, field, value) ==
    LET new == coerceInt(field, value)
    IN  /\ Idle
        /\ writes < MaxWrites
        /\ writes' = writes + 1
        /\ items' = [items EXCEPT ![i][field] = new]
        /\ queue' = IF new # items[i][field]
                    THEN postMessage(queue, "update-request") ELSE queue
        /\ lastWrite' = [field |-> field, value |-> value, read |-> new]
        /\ cycle' = posted(queue')
        /\ UNCHANGED <<cfg, box, offsetWidth, isAttached, isVisible, geom,
                       sizer, sizeLimits, pass, parent>>

(***************************************************************************)
(* Property writes on a new panel with one child, before it is attached.   *)
(***************************************************************************)
InitCoerce ==
    /\ cfg = DefaultConfig
    /\ items = <<DefaultItem>>
    /\ box = BoxSizing(0, 0, 0, 0)
    /\ offsetWidth = Num(0)
    /\ isAttached = FALSE
    /\ isVisible = FALSE
    /\ queue = <<"update-request">>
    /\ geom = <<NoRect>>
    /\ sizer = NoSizer
    /\ sizeLimits = DefaultLimits
    /\ pass = NoPass
    /\ lastWrite = NoWrite
    /\ writes = 0
    /\ parent = FALSE
    /\ cycle = NoCycle

NextCoerce ==
    \/ \E field \in FloatFields, value \in FloatValues : setFloatProperty(field, value)
    \/ \E field \in IntFields, value \in IntValues : setIntProperty(field, value)
    \/ \E i \in 1..Len(items), field \in ItemFields, value \in IntValues :
           setItemProperty(i, field, value)

SpecCoerce ==
    InitCoerce /\ [][NextCoerce]_vars

(***************************************************************************)
(* The life of a panel: a new panel is given children, attached, hidden    *)
(* and shown, resized and reconfigured, and the message loop dispatches    *)
(* the messages posted to it.                                              *)
(***************************************************************************)
\* Remove the i-th element of a sequence.
removeAt(seq, i) ==
    [k \in 1..(Len(seq) - 1) |-> IF k < i THEN seq[k] ELSE seq[k + 1]]

\* Widget.addChild sends 'child-added' to the panel: onChildAdded.
addChild(widget) ==
    /\ Idle
    /\ Len(items) < MaxChildren
    /\ \A i \in 1..Len(items) : items[i] # widget
    /\ items' = Append(items, widget)
    /\ geom' = Append(geom, NoRect)
    /\ queue' = postMessage(queue, "update-request")
    /\ cycle' = posted(queue')
    /\ UNCHANGED <<cfg, box, offsetWidth, isAttached, isVisible, sizer,
                   sizeLimits, pass, lastWrite, writes, parent>>

\* Widget.removeChildAt sends 'child-removed' to the panel: onChildRemoved
\* clears the geometry of the child removed and posts nothing.
removeChild(i) ==
    /\ Idle
    /\ items' = removeAt(items, i)
    /\ geom' = removeAt(geom, i)
    /\ UNCHANGED <<cfg, box, offsetWidth, isAttached, isVisible, queue, sizer,
                   sizeLimits, pass, lastWrite, writes, parent, cycle>>

\* The panel is attached to the DOM: onAfterAttach.
onAfterAttach ==
    /\ Idle
    /\ ~isAttached
    /\ isAttached' = TRUE
    /\ isVisible' = TRUE
    /\ queue' = postMessage(queue, "layout-request")
    /\ cycle' = posted(queue')
    /\ UNCHANGED <<cfg, items, box, offsetWidth, geom, sizer, sizeLimits, pass,
                   lastWrite, writes, parent>>

\* The attached panel is hidden.
hide ==
    /\ Idle
    /\ isAttached /\ isVisible
    /\ isVisible' = FALSE
    /\ cycle' = [cycle EXCEPT !.live = FALSE]
    /\ UNCHANGED <<cfg, items, box, offsetWidth, isAttached, queue, geom, sizer,
                   sizeLimits, pass, lastWrite, writes, parent>>

\* The hidden panel is shown: onAfterShow updates the panel at once.
onAfterShow ==
    /\ Idle
    /\ isAttached /\ ~isVisible
    /\ isVisible' = TRUE
    /\ LayoutPass(offsetWidth)
    /\ UNCHANGED <<cfg, items, box, offsetWidth, isAttached, queue, sizeLimits,
                   lastWrite, writes, parent, cycle>>

\* The widgets added to the panel.
Added ==
    { Item(0, 5, 2, 1, DefaultLimits), Item(2, 10, 3, 5, DefaultLimits),
      Item(0, 1, 2, 1, Limits(Num(60), Num(120), Num(30), Infinity)) }

\* The resize message of an unknown size.
UnknownSize ==
    [width |-> Num(-1), height |-> Num(-1)]

Init ==
    /\ cfg = DefaultConfig
    /\ items = <<>>
    /\ box = BoxSizing(3, 5, 12, 8)
    /\ offsetWidth \in {Num(687), Num(1288)}
    /\ isAttached = FALSE
    /\ isVisible = FALSE
    /\ queue = <<>>
    /\ geom = <<>>
    /\ sizer = NoSizer
    /\ sizeLimits = DefaultLimits
    /\ pass = NoPass
    /\ lastWrite = NoWrite
    /\ writes = 0
    /\ parent \in BOOLEAN
    /\ cycle = NoCycle

Next ==
    \/ \E widget \in Added : addChild(widget)
    \/ \E i \in 1..Len(items) : removeChild(i)
    \/ onAfterAttach
    \/ hide
    \/ onAfterShow
    \/ onUpdateRequest
    \/ onLayoutRequest
    \/ onResize(UnknownSize)

Spec ==
    Init /\ [][Next]_vars

(***************************************************************************)
(* The configuration of a panel: a new panel with one child is attached,   *)
(* hidden and shown, given more children and reconfigured, and the message *)
(* loop dispatches the messages posted to it.                              *)
(***************************************************************************)
\* The writes to the panel's float-valued properties: field and value.
FloatWrites ==
    { <<"aspectRatio", <<1, 2>>>>, <<"minRowSize", Num(20)>>,
      <<"minColumnSize", Num(-3)>>, <<"maxColumnSize", Num(40)>> }

\* The writes to the panel's integer-valued properties.
IntWrites ==
    { <<"columnCount", Wide(0, Num(3))>>, <<"columnSpacing", Wide(0, <<29, 10>>)>> }

\* The writes to a child's placement.
ItemWrites ==
    { <<"row", Wide(0, Num(3))>> }

\* A new panel after addChild.
InitConfig ==
    /\ cfg = DefaultConfig
    /\ items = <<Item(0, 5, 2, 1, DefaultLimits)>>
    /\ box = BoxSizing(3, 5, 12, 8)
    /\ offsetWidth = Num(687)
    /\ isAttached = FALSE
    /\ isVisible = FALSE
    /\ queue = <<"update-request">>
    /\ geom = <<NoRect>>
    /\ sizer = NoSizer
    /\ sizeLimits = DefaultLimits
    /\ pass = NoPass
    /\ lastWrite = NoWrite
    /\ writes = 0
    /\ parent \in BOOLEAN
    /\ cycle = NoCycle

NextConfig ==
    \/ addChild(Item(2, 10, 3, 5, DefaultLimits))
    \/ onAfterAttach
    \/ hide
    \/ onAfterShow
    \/ \E w \in FloatWrites : setFloatProperty(w[1], w[2])
    \/ \E w \in IntWrites : setIntProperty(w[1], w[2])
    \/ \E i \in 1..Len(items), w \in ItemWrites : setItemProperty(i, w[1], w[2])
    \/ onUpdateRequest
    \/ onLayoutRequest

SpecConfig ==
    InitConfig /\ [][NextConfig]_vars

(***************************************************************************)
(* Properties of a layout pass.  They speak of the last run of             *)
(* _layoutChildren, which the variable pass records.                       *)
(***************************************************************************)
\* The inner width of the last pass: the offset width minus border and padding.
PassInner ==
    Sub(pass.offsetWidth, box.horizontalSum)

SingleColPass ==
    pass.laid /\ pass.data.singleCol

GridPass ==
    pass.laid /\ ~pass.data.singleCol

PassCalls ==
    {pass.calls[k] : k \in 1..Len(pass.calls)}

\* v held between lo and hi, the lower bound winning when the bounds cross.
Clamp(v, lo, hi) ==
    IF Lt(v, lo) \/ Lt(hi, lo) THEN lo
    ELSE IF Lt(hi, v) THEN hi
    ELSE v

\* (innerWidth - columnSpacing * (columnCount - 1)) / columnCount
IdealColumnSize ==
    Div(Sub(PassInner, Mul(cfg.columnSpacing, Sub(cfg.columnCount, Num(1)))),
        cfg.columnCount)

\* C1: a pass is in single-column mode exactly when the ideal column size is
\* strictly less than minColumnSize, that is when innerWidth - columnSpacing *
\* (columnCount - 1) < minColumnSize * columnCount; with columnCount = 12,
\* columnSpacing = 8 and minColumnSize = 50 that is exactly when innerWidth < 688.
C1_ModeSelection ==
    pass.laid =>
        /\ pass.data.singleCol <=>
               Lt(Sub(PassInner, Mul(cfg.columnSpacing, Sub(cfg.columnCount, Num(1)))),
                  Mul(cfg.minColumnSize, cfg.columnCount))
        /\ (cfg.columnCount = Num(12) /\ cfg.columnSpacing = Num(8)
                /\ cfg.minColumnSize = Num(50))
               => (pass.data.singleCol <=> Lt(PassInner, Num(688)))

\* A pass of the default configuration at inner width 688 is in grid mode.
C1_Witness ==
    /\ pass.laid
    /\ cfg.columnCount = Num(12) /\ cfg.columnSpacing = Num(8)
    /\ cfg.minColumnSize = Num(50)
    /\ PassInner = Num(688)
    /\ ~pass.data.singleCol

\* C2: the resolved sizes of a pass.  Grid mode: columnSize is the ideal column
\* size held between minColumnSize and maxColumnSize, rowSize is columnSize *
\* aspectRatio held between minRowSize and maxRowSize.  Single-column mode:
\* columnSize is the inner width held between minColumnSize and maxColumnSize,
\* rowSize is minRowSize.  The lower bound wins: columnSize >= minColumnSize and
\* rowSize >= minRowSize always, and the upper bounds hold when min <= max.
C2_ResolvedSizes ==
    pass.laid =>
        /\ pass.data.singleCol =>
               /\ pass.data.colSize = Clamp(PassInner, cfg.minColumnSize, cfg.maxColumnSize)
               /\ pass.data.rowSize = cfg.minRowSize
        /\ ~pass.data.singleCol =>
               /\ pass.data.colSize =
                      Clamp(IdealColumnSize, cfg.minColumnSize, cfg.maxColumnSize)
               /\ pass.data.rowSize =
                      Clamp(Mul(pass.data.colSize, cfg.aspectRatio),
                            cfg.minRowSize, cfg.maxRowSize)
        /\ Le(cfg.minColumnSize, pass.data.colSize)
        /\ Le(cfg.minRowSize, pass.data.rowSize)
        /\ Le(cfg.minColumnSize, cfg.maxColumnSize)
               => Le(pass.data.colSize, cfg.maxColumnSize)
        /\ Le(cfg.minRowSize, cfg.maxRowSize)
               => Le(pass.data.rowSize, cfg.maxRowSize)

\* A pass whose minColumnSize exceeds its maxColumnSize resolves to the minimum.
C2_Witness ==
    /\ pass.laid
    /\ Lt(cfg.maxColumnSize, cfg.minColumnSize)
    /\ pass.data.colSize = cfg.minColumnSize
    /\ Lt(cfg.maxColumnSize, pass.data.colSize)

\* C3, as claimed: in single-column mode every item is given a strictly
\* positive width.
C3_PositiveWidth ==
    SingleColPass =>
        \A call \in PassCalls : Lt(Num(0), call.rect.w)

\* C3, amended: in single-column mode no item is given a negative width, and
\* the width is strictly positive whenever minColumnSize > 0 and the item's
\* maxWidth > 0, or the item's minWidth > 0.
C3_NonNegativeWidth ==
    SingleColPass =>
        \A call \in PassCalls :
            LET limits == items[call.widget].sizeLimits
            IN  /\ Le(Num(0), call.rect.w)
                /\ (\/ Lt(Num(0), cfg.minColumnSize) /\ Lt(Num(0), limits.maxWidth)
                    \/ Lt(Num(0), limits.minWidth))
                       => Lt(Num(0), call.rect.w)

\* A single-column pass at an inner width that is not positive, giving an item
\* without a minimum width a positive width.
C3_Witness ==
    /\ SingleColPass
    /\ Le(PassInner, Num(0))
    /\ \E call \in PassCalls :
           /\ items[call.widget].sizeLimits.minWidth = Num(0)
           /\ Lt(Num(0), call.rect.w)

\* The right edge of the last grid column.
GridRightEdge ==
    Add(box.paddingLeft,
        Add(Mul(cfg.columnCount, pass.data.colSize),
            Mul(Sub(cfg.columnCount, Num(1)), cfg.columnSpacing)))

\* C4: in grid mode the effective column c' = min(column, columnCount - 1) and
\* the effective span s' = min(columnSpan, columnCount - c') satisfy c' + s' <=
\* columnCount, the item starts at column c', and its rectangle as computed
\* from the grid does not extend past the right edge of the last grid column.
C4_NoSpill ==
    GridPass =>
        \A call \in PassCalls :
            LET widget == items[call.widget]
                c == MathMin(widget.column, Sub(cfg.columnCount, Num(1)))
                sp == MathMin(widget.columnSpan, Sub(cfg.columnCount, c))
            IN  /\ Le(Add(c, sp), cfg.columnCount)
                /\ call.rect.x = Add(box.paddingLeft,
                                     Mul(c, Add(pass.data.colSize, cfg.columnSpacing)))
                /\ Le(Add(call.rect.x, call.grid.w), GridRightEdge)

\* C5: in both modes the size set on an item is the size given by the grid
\* held between the item's own limits, the minimum winning: width >= minWidth
\* and height >= minHeight always, width <= maxWidth and height <= maxHeight
\* when the item's minimum does not exceed its maximum.
C5_SizeLimits ==
    pass.laid =>
        \A call \in PassCalls :
            LET limits == items[call.widget].sizeLimits
            IN  /\ call.rect.w = Clamp(call.grid.w, limits.minWidth, limits.maxWidth)
                /\ call.rect.h = Clamp(call.grid.h, limits.minHeight, limits.maxHeight)
                /\ Le(limits.minWidth, call.rect.w)
                /\ Le(limits.minHeight, call.rect.h)
                /\ Le(limits.minWidth, limits.maxWidth)
                       => Le(call.rect.w, limits.maxWidth)
                /\ Le(limits.minHeight, limits.maxHeight)
                       => Le(call.rect.h, limits.maxHeight)

\* A grid pass with column size 100 gives an item with maxWidth 40 the width 40.
C5_Witness ==
    /\ GridPass
    /\ pass.data.colSize = Num(100)
    /\ \E call \in PassCalls :
           /\ items[call.widget].sizeLimits.maxWidth = Num(40)
           /\ call.grid.w = Num(100)
           /\ call.rect.w = Num(40)

\* (row, column) of a before (row, column) of b
LexBefore(a, b) ==
    \/ Lt(a.row, b.row)
    \/ a.row = b.row /\ Lt(a.column, b.column)

\* C6: in single-column mode the items are stacked in ascending (row, column)
\* order whatever their order in the container: an item with the smaller
\* (row, column) gets a y no greater, and every item gets the left padding as x.
C6_StackOrder ==
    SingleColPass =>
        /\ \A a, b \in PassCalls :
               LexBefore(items[a.widget], items[b.widget])
                   => Le(a.rect.y, b.rect.y)
        /\ \A k, l \in 1..Len(pass.calls) :
               (k < l) => ~LexBefore(items[pass.calls[l].widget],
                                     items[pass.calls[k].widget])
        /\ \A a \in PassCalls : a.rect.x = box.paddingLeft

\* Children at (1,0), (0,5), (0,1), in this order in the container, are
\* stacked in the order (0,1), (0,5), (1,0).
C6_Witness ==
    /\ SingleColPass
    /\ Len(items) = 3
    /\ <<items[1].row, items[1].column>> = <<Num(1), Num(0)>>
    /\ <<items[2].row, items[2].column>> = <<Num(0), Num(5)>>
    /\ <<items[3].row, items[3].column>> = <<Num(0), Num(1)>>
    /\ [k \in 1..3 |-> pass.calls[k].widget] = <<3, 2, 1>>
    /\ Lt(pass.calls[1].rect.y, pass.calls[2].rect.y)
    /\ Lt(pass.calls[2].rect.y, pass.calls[3].rect.y)

\* The sum over the first n children of rowSpan * rowSize + (rowSpan - 1) * rowSpacing
RECURSIVE SumOfSizes(_)
SumOfSizes(n) ==
    IF n = 0 THEN Num(0)
    ELSE Add(SumOfSizes(n - 1),
             Add(Mul(items[n].rowSpan, pass.data.rowSize),
                 Mul(Sub(items[n].rowSpan, Num(1)), cfg.rowSpacing)))

\* C7, as claimed: in single-column mode the extent written to the sizer is
\* the top padding plus the sizes of the n items plus n - 1 row spacings.
C7_NoTrailingSpacing ==
    SingleColPass =>
        pass.sizer = <<Add(box.paddingTop,
                           Add(SumOfSizes(Len(items)),
                               Mul(Num(Len(items) - 1), cfg.rowSpacing)))>>

\* C7, amended: the extent written to the sizer is the final cursor value,
\* which is the top padding plus the sizes of the n items plus n row spacings:
\* one row spacing follows the last item.
C7_FinalCursor ==
    SingleColPass =>
        pass.sizer = <<Add(box.paddingTop,
                           Add(SumOfSizes(Len(items)),
                               Mul(Num(Len(items)), cfg.rowSpacing)))>>

\* A single-column pass over two or more items with a positive row spacing.
C7_Witness ==
    /\ SingleColPass
    /\ Len(items) >= 2
    /\ Lt(Num(0), cfg.rowSpacing)
    /\ Len(pass.sizer) = 1
    /\ sizer = [set |-> TRUE, height |-> pass.sizer[1]]

\* The greatest row + rowSpan - 1 over the items.
MaxRow ==
    CHOOSE m \in {Sub(Add(items[i].row, items[i].rowSpan), Num(1)) : i \in 1..Len(items)} :
        \A i \in 1..Len(items) :
            Le(Sub(Add(items[i].row, items[i].rowSpan), Num(1)), m)

\* C8: in grid mode the extent written to the sizer is (maxRow + 1) * rowSize +
\* maxRow * rowSpacing plus the vertical border and padding, maxRow being the
\* greatest row + rowSpan - 1 over the items.
C8_GridExtent ==
    GridPass =>
        /\ pass.sizer = <<Add(Add(Mul(Add(MaxRow, Num(1)), pass.data.rowSize),
                                  Mul(MaxRow, cfg.rowSpacing)),
                              box.verticalSum)>>
        /\ sizer = [set |-> TRUE, height |-> pass.sizer[1]]

\* Row size 50, row spacing 8, one item at row 2 with row span 3: extent 282.
C8_Witness ==
    /\ GridPass
    /\ pass.data.rowSize = Num(50) /\ cfg.rowSpacing = Num(8)
    /\ Len(items) = 1 /\ items[1].row = Num(2) /\ items[1].rowSpan = Num(3)
    /\ box.verticalSum = Num(0)
    /\ sizer = [set |-> TRUE, height |-> Num(282)]

\* C10: a pass over n >= 1 children sets the geometry of each child exactly
\* once, n calls in all, and writes the sizer exactly once; and no pass
\* changes a configuration or placement value.
C10_OneCallPerChild ==
    /\ [](pass.ran /\ Len(items) >= 1 =>
            /\ Len(pass.calls) = Len(items)
            /\ \A i \in 1..Len(items) :
                   Cardinality({k \in 1..Len(pass.calls) : pass.calls[k].widget = i}) = 1
            /\ Len(pass.sizer) = 1
            /\ \A i \in 1..Len(items) : geom[i].set)
    /\ [][pass' # pass => cfg' = cfg /\ items' = items]_vars

\* A pass over three children, in single-column mode has made three calls.
C10_Witness ==
    /\ pass.ran
    /\ Len(items) = 3
    /\ Len(pass.calls) = 3
    /\ pass.data.singleCol

\* C14: in grid mode the items are visited in container order, and item k is
\* assigned, before its size limits apply, x = left + c' * (columnSize +
\* columnSpacing), y = top + row * (rowSize + rowSpacing), w = s' * columnSize +
\* (columnSpan - 1) * columnSpacing and h = rowSpan * rowSize + (rowSpan - 1) *
\* rowSpacing, with c' = min(column, columnCount - 1) and s' = min(columnSpan,
\* columnCount - c'): the spacing term of w uses the declared span, and row
\* and rowSpan are not clamped.
C14_GridRectangle ==
    GridPass =>
        \A k \in 1..Len(pass.calls) :
            LET call == pass.calls[k]
                widget == items[k]
                c == MathMin(widget.column, Sub(cfg.columnCount, Num(1)))
                sp == MathMin(widget.columnSpan, Sub(cfg.columnCount, c))
            IN  /\ call.widget = k
                /\ call.rect.x = Add(box.paddingLeft,
                                     Mul(c, Add(pass.data.colSize, cfg.columnSpacing)))
                /\ call.rect.y = Add(box.paddingTop,
                                     Mul(widget.row, Add(pass.data.rowSize, cfg.rowSpacing)))
                /\ call.grid.w = Add(Mul(sp, pass.data.colSize),
                                     Mul(Sub(widget.columnSpan, Num(1)), cfg.columnSpacing))
                /\ call.grid.h = Add(Mul(widget.rowSpan, pass.data.rowSize),
                                     Mul(Sub(widget.rowSpan, Num(1)), cfg.rowSpacing))

\* Twelve columns of size 50 with spacing 8: the item at column 10 with
\* column span 5 and row 2 is assigned x = 580, y = 116 and w = 2 * 50 + 4 * 8.
C14_Witness ==
    /\ GridPass
    /\ cfg = DefaultConfig
    /\ pass.data.colSize = Num(50)
    /\ box.paddingLeft = Num(0)
    /\ \E call \in PassCalls :
           /\ items[call.widget].column = Num(10)
           /\ items[call.widget].columnSpan = Num(5)
           /\ <<call.rect.x, call.rect.y>> = <<Num(580), Num(116)>>
           /\ call.grid.w = Num(132)

\* C16: in single-column mode the stacked items never overlap: each item
\* starts at or after the end of the item stacked before it, its height as
\* set after clamping to its own limits, plus the row spacing.
C16_NoOverlap ==
    SingleColPass =>
        \A k \in 1..(Len(pass.calls) - 1) :
            LET p == pass.calls[k].rect
                q == pass.calls[k + 1].rect
            IN  Le(Add(Add(p.y, p.h), cfg.rowSpacing), q.y)

(***************************************************************************)
(* Properties of a property write.                                         *)
(***************************************************************************)
WideLt(a, b) ==
    \/ a.k < b.k
    \/ a.k = b.k /\ Lt(a.r, b.r)

\* The nearest legal value of a field to the value written: the value itself
\* for a float field and the value truncated toward zero for an integer
\* field, or the field's lower bound when that is below it.
NearestLegal(field, value) ==
    LET v == IF field \in FloatFields \/ ~IsFinite(value.r) THEN value
             ELSE Wide(value.k, Num(Trunc(value.r)))
        low == Wide(0, Num(LowerBound(field)))
    IN  IF WideLt(v, low) THEN low ELSE v

\* C9: the value read back after a write is the nearest legal value of the
\* field, also for values at or beyond the 32-bit signed range, and writing
\* back the value read leaves it unchanged.
C9_NearestLegalValue ==
    lastWrite.field # "none" =>
        /\ Wide(0, lastWrite.read) = NearestLegal(lastWrite.field, lastWrite.value)
        /\ IF lastWrite.field \in FloatFields
           THEN coerceFloat(lastWrite.field, lastWrite.read) = lastWrite.read
           ELSE coerceInt(lastWrite.field, Wide(0, lastWrite.read)) = lastWrite.read

(***************************************************************************)
(* Properties of the message loop's cycle.                                 *)
(***************************************************************************)
\* The number of runs of _layoutChildren in the cycle.
CyclePasses ==
    Cardinality({k \in 1..Len(cycle.log) : cycle.log[k] = "_layoutChildren"})

\* C11: invalidations are coalesced.  Whatever configuration changes,
\* placement changes and child additions were made on the attached, visible
\* panel since the last cycle, the cycle that dispatches the pending messages
\* runs _layoutChildren at most once.
C11_Coalesced ==
    cycle.live => CyclePasses <= 1

\* What the handlers of a log did: the handlers' names left out.
Effects(log) ==
    SelectSeq(log, LAMBDA e : e \in {"setSizeLimits", "parent.layout-request",
                                      "_layoutChildren"})

\* What the handler run in this step did.
StepEffects ==
    Effects(SubSeq(cycle'.log, Len(cycle.log) + 1, Len(cycle'.log)))

\* This step writes a structural property, and the value read back differs
\* from the one before.
StructuralWrite ==
    /\ writes' = writes + 1
    /\ lastWrite'.field \in {"columnCount", "columnSpacing", "minColumnSize",
                              "maxColumnSize"}
    /\ cfg'[lastWrite'.field] # cfg[lastWrite'.field]

\* This step dispatches a pending layout request.
LayoutDispatch ==
    /\ queue # <<>>
    /\ Head(queue) = "layout-request"
    /\ queue' = Tail(queue)

\* The size limits the panel reports for its configuration.
ReportedLimits ==
    Limits(Add(cfg.minColumnSize, box.horizontalSum),
           Add(cfg.minRowSize, box.verticalSum), Infinity, Infinity)

\* C12, as claimed: a structural write that changes the value leaves a layout
\* request pending for the message loop; its dispatch on an attached panel sets the reported size limits, then sends the parent, if
\* any, a layout request, then runs a placement pass, and on a panel that is
\* not attached does none of the three.
C12_StructuralChange ==
    [][/\ StructuralWrite => InQueue(queue', "layout-request")
       /\ LayoutDispatch =>
                IF isAttached
                THEN /\ sizeLimits' = ReportedLimits
                     /\ StepEffects =
                            <<"setSizeLimits">> \o
                            (IF parent THEN <<"parent.layout-request">> ELSE <<>>) \o
                            <<"_layoutChildren">>
                ELSE /\ sizeLimits' = sizeLimits
                     /\ StepEffects = <<>>]_vars

\* C12, amended: as claimed, but the placement pass is run only when the
\* panel is visible; on an attached panel that is hidden the size limits are
\* set and the parent is sent its layout request, and no pass is run.
C12_StructuralChangeVisible ==
    [][/\ StructuralWrite => InQueue(queue', "layout-request")
       /\ LayoutDispatch =>
                IF isAttached
                THEN /\ sizeLimits' = ReportedLimits
                     /\ StepEffects =
                            <<"setSizeLimits">> \o
                            (IF parent THEN <<"parent.layout-request">> ELSE <<>>) \o
                            (IF isVisible THEN <<"_layoutChildren">> ELSE <<>>)
                     /\ ~isVisible => pass' = pass
                ELSE /\ sizeLimits' = sizeLimits
                     /\ pass' = pass
                     /\ StepEffects = <<>>]_vars

\* A write of columnSpacing on an attached, visible panel with a parent has
\* been followed by the three steps, in order.
C12_Witness ==
    /\ isAttached /\ isVisible /\ parent
    /\ lastWrite.field = "columnSpacing"
    /\ cfg.columnSpacing = Num(2)
    /\ queue = <<>>
    /\ cycle.log = <<"onLayoutRequest", "setSizeLimits", "parent.layout-request",
                     "onUpdateRequest", "_layoutChildren">>
    /\ sizeLimits = Limits(Num(62), Num(58), Infinity, Infinity)

(***************************************************************************)
(* Properties of the panel at rest.                                        *)
(***************************************************************************)
\* The geometry of the children and the sizer height are those a layout pass
\* over the current children sets.
LayoutCurrent ==
    \E out \in _layoutChildren(cfg, items, box, offsetWidth) :
        /\ geom = ApplyCalls([i \in 1..Len(items) |-> NoRect], out.calls, 1)
        /\ sizer = [set |-> TRUE, height |-> out.sizer[1]]

\* C13: every addition and every removal of a child of an attached, visible
\* panel triggers a relayout: once the pending messages are dispatched, the
\* rectangles of the children and the sizer extent are those of a layout
\* pass over the current children.
C13_RelayoutOnChildChange ==
    (isAttached /\ isVisible /\ queue = <<>> /\ Len(items) >= 1) => LayoutCurrent

\* C15: when an attached panel has no message pending, the layout request
\* posted on its attachment among them, the minimum size it reports agrees
\* with its configuration: min width = minColumnSize + horizontal box sum and
\* min height = minRowSize + vertical box sum, also after a write of
\* minRowSize alone.
C15_ReportedMinimum ==
    (isAttached /\ queue = <<>>) =>
        /\ sizeLimits.minWidth = Add(cfg.minColumnSize, box.horizontalSum)
        /\ sizeLimits.minHeight = Add(cfg.minRowSize, box.verticalSum)

====
